---------------------------- MODULE Spec2Model ----------------------------
(***************************************************************************)
(* HybridSolver (solver2.py): the Newton-Raphson / bisection hybrid loop.  *)
(*                                                                         *)
(* Numbers.  Every abscissa, every value of f and every value of f' is a   *)
(* dyadic rational; the model holds it as an integer count of 1/G,         *)
(* G = 2^Bits.  A call is given only endpoints at which f has such a value *)
(* (Representable: 1/x is never asked for at 3).                           *)
(* For the expressions of FProfiles, whose derivative values               *)
(* are 0 or powers of two wherever a call reaches them, every quotient     *)
(* f_val/df_val and every midpoint (a+b)/2 the loop forms within MaxIter   *)
(* iterations is again a multiple of 1/G (checked by ExactArithmetic), so  *)
(* Python's binary floating point computes the same numbers, unrounded.    *)
(***************************************************************************)
EXTENDS Integers, Sequences, FiniteSets, TLC

\* ------------------------------------------------------------------ bounds
\* Largest max_iter a call is given.
MaxIter == 3

\* Binary digits kept after the point: the first midpoint needs one, and each
\* iteration (a Newton step with |df_val| <= 4, or a midpoint) adds at most two.
Bits == 2 * MaxIter + 2

G == 2 ^ Bits

\* ---------------------------------------------------------------- helpers
Abs(n) == IF n < 0 THEN -n ELSE n

\* n / d for a divisor of either sign.  The model divides only where d
\* divides n (Representable guards the inputs, ExactArithmetic checks every
\* division made), so no rounding rule is involved.
Quot(n, d) == IF d > 0 THEN n \div d ELSE (-n) \div (-d)

\* ------------------------------------------------- the functions f and f'
\* self.expr, the expression sp.sympify makes of func_str, held by its
\* parameters (k, c1, c2 in whole units, m1, m2 integer slopes):
\*   kind "pw":     Piecewise((m1*x - c1, x < k), (m2*x - c2, True));
\*                  with both pieces alike it is the expression m*x - c
\*   kind "recip":  1/x
\*   kind "nrsq":   -1/x**2, which occurs as a derivative only
\*   kind "abs":    Abs(x) - c1
\*   kind "dabs":   the derivative of Abs(x) - c1 for the symbol x, which has
\*                  no assumptions: it holds the unevaluated
\*                  Derivative(re(x), x), occurs as a derivative only
Pw(k, m1, c1, m2, c2) ==
    [kind |-> "pw", k |-> k, m1 |-> m1, c1 |-> c1, m2 |-> m2, c2 |-> c2]

Lin(m, c) == Pw(0, m, c, m, c)

\* The expressions a solver is built on:
\*   x - 2, 3 - x, 2*x - 1: Newton lands on the root at once;
\*   -1 | 4*x - 13 at 3:     a vanishing derivative left of the root;
\*   x - 7 | 4*x - 13 at 3:  Newton overshoots from the left piece;
\*   2*x - 7 | 4*x - 13 at 3: Newton reaches the root in two steps;
\*   2*x - 5 | 2*x - 3 at 2:  a sign jump without a root, Newton alternates;
\*   4*|x - 3| - 8, |x - 2| - 1 (as two pieces): not monotone, two roots;
\*   x + 1 | -x - 2 at 2:     a root left of the sign jump, Newton overshoots
\*                            from the right piece to beyond that root;
\*   1: no sign change anywhere;   1/x: a pole at 0;
\*   Abs(x) - 1: f is defined everywhere, calling its f_prime always raises.
FProfiles ==
    { Lin(1, 2), Lin(-1, -3), Lin(2, 1), Lin(0, -1),
      Pw(3, 0, 1, 4, 13),
      Pw(3, 1, 7, 4, 13),
      Pw(3, 2, 7, 4, 13),
      Pw(2, 2, 5, 2, 3),
      Pw(3, -4, -4, 4, 20),
      Pw(2, -1, -1, 1, 3),
      Pw(2, 1, -1, -1, 2),
      [kind |-> "recip", k |-> 0, m1 |-> 0, c1 |-> 0, m2 |-> 0, c2 |-> 0],
      [kind |-> "abs", k |-> 0, m1 |-> 0, c1 |-> 1, m2 |-> 0, c2 |-> 0] }

\* sp.diff(self.expr, self.x): a piece m*x - c becomes the constant m,
\* 1/x becomes -1/x**2, and Abs(x) - c an expression with an unevaluated
\* Derivative.
Diff(e) ==
    CASE e.kind = "pw" -> Pw(e.k, 0, -e.m1, 0, -e.m2)
      [] e.kind = "abs" -> [e EXCEPT !.kind = "dabs"]
      [] OTHER -> [e EXCEPT !.kind = "nrsq"]

\* calling the lambdified expression e at x raises: ZeroDivisionError at the
\* pole, NameError wherever the generated code names Derivative.  (A build
\* whose lambdify refuses that expression instead leaves the solver invalid,
\* the other initial state.)
Raises(e, x) ==
    \/ e.kind \in {"recip", "nrsq"} /\ x = 0
    \/ e.kind = "dabs"

\* the value of the lambdified expression e at x, in units of 1/G (x itself
\* is in units of 1/G)
Eval(e, x) ==
    CASE e.kind = "pw" ->
           IF x < e.k * G THEN e.m1 * x - e.c1 * G ELSE e.m2 * x - e.c2 * G
      [] e.kind = "recip" -> Quot(G * G, x)
      [] e.kind = "nrsq" -> -((G * G * G) \div (x * x))
      [] e.kind = "abs" -> Abs(x) - e.c1 * G
      [] OTHER -> 0

\* The value of e at x is a multiple of 1/G, so that Eval gives the very
\* number the callable returns (1/x at 3 is not: no call is given it).
Representable(e, x) ==
    e.kind \in {"recip", "nrsq"} /\ x # 0 => (G * G) % Abs(x) = 0

\* ------------------------------------------------------ inputs of solve
\* (a, b) in whole units: brackets, a reversed pair, pairs with an endpoint on
\* a root or on the pole and pairs without a sign change all occur for some
\* profile.  A call takes a pair only if f is Representable at both ends.
Intervals == { <<0, 4>>, <<1, 3>>, <<0, 2>>, <<2, 3>>, <<4, 0>>,
               <<-2, 1>>, <<-1, 2>>, <<-1, 1>> }

\* tol in units of 1/G: 1/G (no error estimate is below it), 1/2 and 8.
Tolerances == { 1, G \div 2, 8 * G }

MaxIters == 0 .. MaxIter

\* ------------------------------------------------- the steps of the loop
\* a + b / 2: the parentheses of the midpoint lost
Midpoint_NoParens(lo, hi) == lo + hi \div 2

\* (a + b) / 2
Midpoint(lo, hi) == (lo + hi) \div 2

\* fa * fb > 0: an endpoint that is a root passes the bracket check
BracketFails_Strict(fa, fb) == fa * fb > 0

\* fa * fb >= 0
BracketFails(fa, fb) == fa * fb >= 0

\* abs(df_val) < 1e-12.  df_val is a multiple of 1/G and 1/G > 1e-12, so the
\* test is df_val = 0; EPS_DERIV_UNITS is the least positive count of 1/G.
EPS_DERIV_UNITS == 1

DerivTooSmall(dv) == Abs(dv) < EPS_DERIV_UNITS

\* current_x - (f_val / df_val), all three in units of 1/G
NewtonCandidate(x, fv, dv) == x - Quot(G * fv, dv)

\* a <= x_newton <= b: a candidate on an endpoint is accepted
Inside_Closed(lo, x, hi) == lo <= x /\ x <= hi

\* the safety check dropped: every candidate is accepted
Inside_Any(lo, x, hi) == TRUE

\* a < x_newton < b
Inside(lo, x, hi) == lo < x /\ x < hi

\* self.f(a) * f_new > 0: the halves of the bracket swapped
SignChange_Flipped(fa, fnew) == fa * fnew > 0

\* self.f(a) * f_new < 0
SignChange(fa, fnew) == fa * fnew < 0

\* abs(b - a)
Width(lo, hi) == Abs(hi - lo)

\* abs(f_new) < 1e-12.  f_new is a multiple of 1/G and 1/G > 1e-12, so the
\* test is f_new = 0; EPS_RESID_UNITS is the least positive count of 1/G.
EPS_RESID_UNITS == 1

\* error < tol alone: the residual test dropped
Converged_NoResidual(err, tl, fnew) == err < tl

\* error < tol or abs(f_new) < 1e-12
Converged(err, tl, fnew) == err < tl \/ Abs(fnew) < EPS_RESID_UNITS

\* range(1, max_iter + 2): one iteration too many
InRange_OffByOne(k, mi) == 1 <= k /\ k <= mi + 1

\* range(1, max_iter + 1) has an element i
InRange(k, mi) == 1 <= k /\ k <= mi

\* the dict appended to self.history
Record(k, meth, x, fnew, err, note) ==
    [Iteration |-> k, Method |-> meth, Estimate |-> x,
     FValue |-> fnew, Error |-> err, Decision |-> note]

NEWTON == "Newton-Raphson"
BISECTION == "Bisection"
ACCEPTED == "Accepted (Step is Safe)"
OVERSHOOT == "Switched (Newton Overshot Bounds)"
SINGULARITY == "Switched (Newton Singularity)"


\* ------------------------------------------------------------------ state
VARIABLES
    valid,          \* self.valid
    f,              \* self.f:  the lambdified self.expr
    df,             \* self.df: the lambdified self.deriv
    history,        \* self.history
    pc,             \* where the caller / the running solve call stands
    a, b,           \* solve's a and b, in units of 1/G
    tol,            \* solve's tol, in units of 1/G
    max_iter,       \* solve's max_iter
    i,              \* the loop variable (0 before the first iteration)
    current_x,      \* current_x
    method_used,    \* method_used
    decision_note,  \* decision_note
    f_new,          \* f_new
    error,          \* error
    ret,            \* what the last call handed back to its caller
    evalsF,         \* observer: the abscissae self.f was called on, this call
    evalsDf,        \* observer: the abscissae self.df was called on, this call
    appended,       \* observer: how many records this call appended
    passed,         \* observer: this call got past the bracket check
    nw,             \* observer: a, b and current_x when the iteration under way began
    aux             \* observer: nw and the updated bracket, per record of history

vars == << valid, f, df, history, pc, a, b, tol, max_iter, i, current_x,
           method_used, decision_note, f_new, error, ret,
           evalsF, evalsDf, appended, passed, nw, aux >>

frame == << a, b, tol, max_iter, i, current_x, method_used, decision_note,
            f_new, error >>

solver == << valid, f, df >>

\* the profile standing for "no callable" when sympify failed
NoF == [kind |-> "none", k |-> 0, m1 |-> 0, c1 |-> 0, m2 |-> 0, c2 |-> 0]

\* the caller has received nothing yet
NoRet == [tag |-> "none", root |-> 0, table |-> << >>]

\* the observer's note before any iteration has begun
NoNewton == [lo |-> 0, hi |-> 0, x |-> 0]

\* __init__: the state after HybridSolver(func_str)
Init ==
    /\ \/ valid = TRUE /\ f \in FProfiles /\ df = Diff(f)
       \/ valid = FALSE /\ f = NoF /\ df = NoF
    /\ history = << >>
    /\ pc = "idle"
    /\ a = 0 /\ b = 0 /\ tol = 0 /\ max_iter = 0 /\ i = 0 /\ current_x = 0
    /\ method_used = "" /\ decision_note = "" /\ f_new = 0 /\ error = 0
    /\ ret = NoRet
    /\ evalsF = << >> /\ evalsDf = << >> /\ appended = 0 /\ passed = FALSE
    /\ nw = NoNewton /\ aux = << >>

\* ---------------------------------------------------------------- actions
\* The caller invokes solver.solve(a, b, tol, max_iter): a fresh frame.
Call ==
    /\ pc \in {"idle", "returned", "raised"}
    /\ \E iv \in Intervals, tl \in Tolerances, mi \in MaxIters :
          /\ Representable(f, iv[1] * G)
          /\ Representable(f, iv[2] * G)
          /\ a' = iv[1] * G
          /\ b' = iv[2] * G
          /\ tol' = tl
          /\ max_iter' = mi
    /\ i' = 0 /\ current_x' = 0 /\ method_used' = "" /\ decision_note' = ""
    /\ f_new' = 0 /\ error' = 0
    /\ ret' = NoRet
    /\ evalsF' = << >> /\ evalsDf' = << >> /\ appended' = 0 /\ passed' = FALSE
    /\ nw' = NoNewton /\ aux' = << >>
    /\ pc' = "entry"
    /\ UNCHANGED << solver, history >>

\* Lines 35-46: the validity check, the bracket check, the first midpoint and
\* the clearing of self.history.
Validate ==
    /\ pc = "entry"
    /\ IF ~valid
         THEN /\ ret' = [tag |-> "invalid", root |-> 0, table |-> << >>]
              /\ pc' = "returned"
              /\ UNCHANGED << history, current_x, evalsF, passed >>
       ELSE IF Raises(f, a)
         THEN /\ ret' = [tag |-> "exception", root |-> 0, table |-> << >>]
              /\ pc' = "raised"
              /\ evalsF' = << a >>
              /\ UNCHANGED << history, current_x, passed >>
       ELSE IF Raises(f, b)
         THEN /\ ret' = [tag |-> "exception", root |-> 0, table |-> << >>]
              /\ pc' = "raised"
              /\ evalsF' = << a, b >>
              /\ UNCHANGED << history, current_x, passed >>
       ELSE IF BracketFails(Eval(f, a), Eval(f, b))
         THEN /\ ret' = [tag |-> "bracket_error", root |-> 0, table |-> << >>]
              /\ pc' = "returned"
              /\ evalsF' = << a, b >>
              /\ UNCHANGED << history, current_x, passed >>
       ELSE /\ current_x' = Midpoint(a, b)
            /\ history' = << >>
            /\ pc' = "loop"
            /\ evalsF' = << a, b >>
            /\ passed' = TRUE
            /\ UNCHANGED ret
    /\ UNCHANGED << solver, a, b, tol, max_iter, i, method_used, decision_note,
                    f_new, error, evalsDf, appended, nw, aux >>

\* Line 48: the for statement takes the next i of range(1, max_iter + 1), or
\* the range is exhausted and the loop is left.
ForNext ==
    /\ pc = "loop"
    /\ IF InRange(i + 1, max_iter)
         THEN i' = i + 1 /\ pc' = "newton"
         ELSE i' = i /\ pc' = "exit"
    /\ UNCHANGED << solver, history, a, b, tol, max_iter, current_x, method_used,
                    decision_note, f_new, error, ret,
                    evalsF, evalsDf, appended, passed, nw, aux >>

\* Lines 49-78: the Newton attempt and the switching decision.
NewtonStep ==
    /\ pc = "newton"
    /\ LET fErr   == Raises(f, current_x)
           dfErr  == ~fErr /\ Raises(df, current_x)
           f_val  == Eval(f, current_x)
           df_val == Eval(df, current_x)
           small  == ~fErr /\ ~dfErr /\ DerivTooSmall(df_val)
           avail  == ~fErr /\ ~dfErr /\ ~small
           x_newton == IF avail THEN NewtonCandidate(current_x, f_val, df_val) ELSE 0
       IN  /\ IF avail /\ Inside(a, x_newton, b)
                THEN /\ current_x' = x_newton
                     /\ method_used' = NEWTON
                     /\ decision_note' = ACCEPTED
              ELSE IF avail
                THEN /\ current_x' = Midpoint(a, b)
                     /\ method_used' = BISECTION
                     /\ decision_note' = OVERSHOOT
              ELSE   /\ current_x' = Midpoint(a, b)
                     /\ method_used' = BISECTION
                     /\ decision_note' = SINGULARITY
           /\ evalsF' = Append(evalsF, current_x)
           /\ evalsDf' = IF fErr THEN evalsDf ELSE Append(evalsDf, current_x)
           /\ nw' = [lo |-> a, hi |-> b, x |-> current_x]
    /\ pc' = "update"
    /\ UNCHANGED << solver, history, a, b, tol, max_iter, i, f_new, error, ret,
                    appended, passed, aux >>

\* Lines 80-89: f at the new current_x, the bracket update and the error.
\* Neither evaluation stands inside a try block.
UpdateBracket ==
    /\ pc = "update"
    /\ IF Raises(f, current_x)
         THEN /\ ret' = [tag |-> "exception", root |-> 0, table |-> << >>]
              /\ pc' = "raised"
              /\ evalsF' = Append(evalsF, current_x)
              /\ UNCHANGED << a, b, f_new, error >>
       ELSE IF Raises(f, a)
         THEN /\ ret' = [tag |-> "exception", root |-> 0, table |-> << >>]
              /\ pc' = "raised"
              /\ evalsF' = Append(Append(evalsF, current_x), a)
              /\ f_new' = Eval(f, current_x)
              /\ UNCHANGED << a, b, error >>
       ELSE /\ f_new' = Eval(f, current_x)
            /\ IF SignChange(Eval(f, a), f_new')
                 THEN b' = current_x /\ a' = a
                 ELSE a' = current_x /\ b' = b
            /\ error' = Width(a', b')
            /\ evalsF' = Append(Append(evalsF, current_x), a)
            /\ pc' = "log"
            /\ UNCHANGED ret
    /\ UNCHANGED << solver, history, tol, max_iter, i, current_x, method_used,
                    decision_note, evalsDf, appended, passed, nw, aux >>

\* Lines 91-99: one record is appended to self.history.
LogStep ==
    /\ pc = "log"
    /\ history' = Append(history, Record(i, method_used, current_x, f_new,
                                         error, decision_note))
    /\ appended' = appended + 1
    /\ aux' = Append(aux, [nw |-> nw, a |-> a, b |-> b])
    /\ pc' = "check"
    /\ UNCHANGED << solver, frame, ret, evalsF, evalsDf, passed, nw >>

\* Lines 101-103: break on convergence, else back to the for statement.
CheckConvergence ==
    /\ pc = "check"
    /\ pc' = IF Converged(error, tol, f_new) THEN "exit" ELSE "loop"
    /\ UNCHANGED << solver, history, frame, ret,
                    evalsF, evalsDf, appended, passed, nw, aux >>

\* Lines 105-106: the estimate and the table built from self.history.
Return ==
    /\ pc = "exit"
    /\ ret' = [tag |-> "ok", root |-> current_x, table |-> history]
    /\ pc' = "returned"
    /\ UNCHANGED << solver, history, frame,
                    evalsF, evalsDf, appended, passed, nw, aux >>

Next ==
    \/ Call
    \/ Validate
    \/ ForNext
    \/ NewtonStep
    \/ UpdateBracket
    \/ LogStep
    \/ CheckConvergence
    \/ Return

Spec == Init /\ [][Next]_vars

\* ------------------------------------------------------- model soundness
TypeOK ==
    /\ valid \in BOOLEAN
    /\ pc \in {"idle", "entry", "loop", "newton", "update", "log", "check",
               "exit", "returned", "raised"}
    /\ i \in 0 .. MaxIter
    /\ Len(history) <= MaxIter

\* Every value of f, every quotient and every midpoint a call formed was
\* exact, so the integers of the model are the floats of the program.
ExactArithmetic ==
    /\ pc \in {"loop", "newton"} => (a + b) % 2 = 0
    /\ \A k \in 1 .. Len(evalsF) : Representable(f, evalsF[k])
    /\ pc = "entry" => Representable(f, a) /\ Representable(f, b)
    /\ (pc = "newton" /\ ~Raises(f, current_x) /\ ~Raises(df, current_x))
          => /\ df.kind = "nrsq" => (G * G * G) % (current_x * current_x) = 0
             /\ ~DerivTooSmall(Eval(df, current_x))
                   => (G * Eval(f, current_x)) % Abs(Eval(df, current_x)) = 0


\* The solve steps run to completion once a call has begun: the code is one
\* sequential function body without suspension points.
Step ==
    \/ Validate
    \/ ForNext
    \/ NewtonStep
    \/ UpdateBracket
    \/ LogStep
    \/ CheckConvergence
    \/ Return

FairSpec == Spec /\ WF_vars(Step)

\* ------------------------------------------------------------- vocabulary
\* the a and b the running call was given: the two abscissae of lines 39-40
low0 == evalsF[1]

high0 == evalsF[2]

\* the call got past the bracket check with low < high
ProperCall == passed /\ low0 < high0

\* the states of a call between the bracket check and the return statement
InLoop == pc \in {"loop", "newton", "update", "log", "check", "exit"}

\* the states of an iteration after its bracket update
AfterUpdate == pc \in {"log", "check", "exit"} /\ i >= 1

\* Newton is available at abscissa x: both evaluations succeed and
\* |f_prime(x)| >= EPS_DERIV
Available(x) ==
    /\ ~Raises(f, x)
    /\ ~Raises(df, x)
    /\ Eval(df, x) # 0

\* the Newton candidate x - f(x)/f_prime(x), where Newton is available
Candidate(x) == x - Quot(G * Eval(f, x), Eval(df, x))

\* the stop condition of a record: error < tolerance or |f_new| < 1e-12
Stops(r) == r.Error < tol \/ r.FValue = 0

\* ----------------------------------------------------------------- claims

\* C1 as stated: in every iteration of a call on a valid bracket with
\* low < high, f(low)*f(high) < 0 holds before and after the bracket update,
\* whatever f(current_x) is, f(current_x) = 0 included.
C1_BracketAlways ==
    ProperCall /\ InLoop => Eval(f, a) * Eval(f, b) < 0

\* C1 amended: f(low)*f(high) < 0 holds before the bracket update of every
\* iteration, and after it whenever f(current_x) # 0; when f(current_x) = 0
\* the update sets low := current_x and f(low)*f(high) = 0, and no further
\* iteration begins on that bracket.
C1_BracketUnlessRoot ==
    ProperCall /\ InLoop =>
        IF AfterUpdate /\ f_new = 0
          THEN /\ a = current_x
               /\ Eval(f, a) = 0
               /\ Eval(f, a) * Eval(f, b) = 0
          ELSE Eval(f, a) * Eval(f, b) < 0

\* C1 witness: the second iteration of a call lands on a root exactly.
C1_Witness ==
    ProperCall /\ pc = "check" /\ i = 2 /\ f_new = 0 /\ a = current_x

\* C1 second case: an update with f(current_x) # 0 has moved an endpoint.
C1_WitnessMoved ==
    ProperCall /\ pc = "check" /\ i = 2 /\ f_new # 0

\* C2 as stated: once the bracket check has passed, no evaluation error
\* leaves solve.
C2_NoErrorEscapes ==
    pc = "raised" => ~passed

\* C3: a call whose endpoints give f(low)*f(high) >= 0 returns the
\* bracket-failure message with no root, having called f on low and high only,
\* never f_prime, and having appended no record.
C3_BracketFailure ==
    ( /\ valid
      /\ pc \notin {"idle", "entry"}
      /\ Len(evalsF) >= 2
      /\ ~Raises(f, low0) /\ ~Raises(f, high0)
      /\ Eval(f, low0) * Eval(f, high0) >= 0 )
    => /\ pc = "returned"
       /\ ret.tag = "bracket_error"
       /\ evalsF = << a, b >>
       /\ evalsDf = << >>
       /\ appended = 0
       /\ i = 0

\* C3 witness: a bracket-failure return on an interval one endpoint of which
\* is a root of f.
C3_Witness ==
    /\ pc = "returned" /\ ret.tag = "bracket_error"
    /\ Eval(f, a) = 0 /\ Eval(f, b) # 0

\* C4 as stated: after a call has returned, self.history holds only the
\* records that call appended.
C4_HistoryOfLastCall ==
    pc = "returned" => Len(history) = appended

\* C5: a record of an iteration where Newton was available and the candidate
\* was not strictly inside the bracket is BISECTION / SWITCHED_OVERSHOOT at
\* the exact midpoint; a record is NEWTON exactly when it is NEWTON_ACCEPTED,
\* and then the candidate was strictly inside and is the estimate.
C5_Switching ==
    passed =>
      \A k \in 1 .. Len(aux) :
        LET r  == history[k]
            n  == aux[k].nw
            xn == Candidate(n.x)
        IN  /\ (Available(n.x) /\ ~(n.lo < xn /\ xn < n.hi))
                 => /\ r.Method = BISECTION
                    /\ r.Decision = OVERSHOOT
                    /\ 2 * r.Estimate = n.lo + n.hi
            /\ (r.Method = NEWTON \/ r.Decision = ACCEPTED)
                 => /\ r.Method = NEWTON
                    /\ r.Decision = ACCEPTED
                    /\ Available(n.x)
                    /\ n.lo < xn /\ xn < n.hi
                    /\ r.Estimate = xn

\* C5 witness: one history with an overshoot record and an accepted record.
C5_Witness ==
    /\ passed /\ Len(aux) = Len(history)
    /\ \E k \in 1 .. Len(history) : history[k].Decision = OVERSHOOT
    /\ \E k \in 1 .. Len(history) : history[k].Decision = ACCEPTED

\* C6: where Newton is unavailable (f or f_prime raises at current_x, or
\* |f_prime(current_x)| < EPS_DERIV) the iteration takes BISECTION /
\* SWITCHED_SINGULARITY at the exact midpoint of the bracket it began with:
\* so its locals say after the attempt, and so its record says.
C6_Singularity ==
    /\ (passed /\ pc = "update" /\ ~Available(nw.x))
          => /\ method_used = BISECTION
             /\ decision_note = SINGULARITY
             /\ 2 * current_x = nw.lo + nw.hi
    /\ passed =>
         \A k \in 1 .. Len(aux) :
           LET r == history[k]
               n == aux[k].nw
           IN  ~Available(n.x)
                 => /\ r.Method = BISECTION
                    /\ r.Decision = SINGULARITY
                    /\ 2 * r.Estimate = n.lo + n.hi

\* C6 witness: a returned table of two singularity records, each of an
\* iteration in which f was evaluated at current_x and the call of f_prime
\* raised, the second at a current_x other than the midpoint it fell back to.
C6_Witness ==
    /\ passed /\ pc = "returned" /\ ret.tag = "ok"
    /\ Len(aux) = 2 /\ ret.table = history /\ Len(history) = 2
    /\ \A k \in 1 .. 2 :
          /\ ~Raises(f, aux[k].nw.x) /\ Raises(df, aux[k].nw.x)
          /\ history[k].Method = BISECTION
          /\ history[k].Decision = SINGULARITY
          /\ 2 * history[k].Estimate = aux[k].nw.lo + aux[k].nw.hi
    /\ aux[2].nw.x # history[2].Estimate

\* C6, the threshold case: a history whose first two records are singularity
\* records caused by a vanishing f_prime, followed by an accepted Newton step.
C6_WitnessSmall ==
    /\ passed /\ Len(aux) = 3 /\ Len(history) = 3
    /\ \A k \in 1 .. 2 :
          /\ history[k].Decision = SINGULARITY
          /\ ~Raises(df, aux[k].nw.x)
          /\ Eval(df, aux[k].nw.x) = 0
    /\ history[3].Decision = ACCEPTED

\* C6, the case of f raising at current_x inside the Newton attempt: the
\* locals hold the bisection fallback.  That iteration appends no record,
\* since current_x is then the midpoint already and line 81 calls f on it
\* again outside the try block.
C6_WitnessRaise ==
    /\ passed /\ pc = "update" /\ Raises(f, nw.x)
    /\ decision_note = SINGULARITY

\* C7, the counting part: a call on a valid bracket never runs more than
\* max_iterations iterations, appends one record per iteration, and the
\* table it returns has the n <= max_iterations records of the n iterations
\* run, numbered 1..n in order.
C7_Counting ==
    /\ (passed /\ InLoop)
          => /\ i <= max_iter
             /\ Len(history) <= max_iter
             /\ appended = Len(history)
             /\ Len(history) = IF pc \in {"newton", "update", "log"} THEN i - 1 ELSE i
    /\ (passed /\ pc = "returned")
          => /\ ret.tag = "ok"
             /\ Len(ret.table) = i
             /\ Len(ret.table) <= max_iter
             /\ ret.table = history
             /\ \A k \in 1 .. Len(ret.table) : ret.table[k].Iteration = k

\* C7: every call that passes the bracket check ends, and the counting part
\* holds throughout.
C7_Termination ==
    /\ [] C7_Counting
    /\ [] (passed /\ InLoop => <> (pc \in {"returned", "raised"}))

\* C7 witness: a call returns after all max_iterations = MaxIter iterations.
C7_Witness ==
    /\ passed /\ pc = "returned" /\ ret.tag = "ok"
    /\ max_iter = MaxIter /\ Len(ret.table) = MaxIter

\* C8: in a returned table no record but the last satisfies the stop
\* condition; when none does, the table has all max_iterations records;
\* either way the call returns current_x, not a failure.
C8_StopAtFirst ==
    (passed /\ pc = "returned") =>
      LET h == ret.table
          n == Len(h)
      IN  /\ ret.tag = "ok"
          /\ ret.root = current_x
          /\ \A k \in 1 .. n : k < n => ~Stops(h[k])
          /\ (\A k \in 1 .. n : ~Stops(h[k])) => n = max_iter
          /\ (n >= 1 /\ Stops(h[n])) => i = n

\* C8 witness: a call that ran MaxIter iterations without the stop condition
\* ever holding, and returned.
C8_Witness ==
    /\ passed /\ pc = "returned" /\ ret.tag = "ok"
    /\ Len(ret.table) = MaxIter
    /\ \A k \in 1 .. Len(ret.table) : ~Stops(ret.table[k])

\* C8 second case: the stop condition held on the residual alone.
C8_WitnessResidual ==
    /\ passed /\ pc = "returned" /\ ret.tag = "ok"
    /\ Len(ret.table) = 2 /\ max_iter = 3
    /\ ret.table[2].FValue = 0 /\ ret.table[2].Error >= tol

\* C9: in a call started with low < high every record's error is |high - low|
\* of the bracket after that iteration's update, is non-negative, and is no
\* larger than the error of the record before it.
C9_ErrorMonotone ==
    ProperCall =>
      \A k \in 1 .. Len(aux) :
        /\ history[k].Error = (IF aux[k].b >= aux[k].a THEN aux[k].b - aux[k].a
                                                       ELSE aux[k].a - aux[k].b)
        /\ history[k].Error >= 0
        /\ k > 1 => history[k].Error <= history[k - 1].Error

\* C9 witness: a history of MaxIter records holding a Newton-accepted record
\* and a bisection record after the first one.
C9_Witness ==
    /\ ProperCall /\ Len(aux) = MaxIter /\ Len(history) = MaxIter
    /\ \E k \in 2 .. MaxIter : history[k].Method = NEWTON
    /\ \E k \in 2 .. MaxIter : history[k].Method = BISECTION

\* C10 as stated: the root any call returns after at least one iteration
\* satisfies low <= root <= high for the final low and high, a call given
\* its pair in the order low > high included.
C10_RootInBracketAnyCall ==
    (passed /\ pc = "returned" /\ ret.tag = "ok" /\ Len(ret.table) >= 1)
      => a <= ret.root /\ ret.root <= b

\* C10 witness of the reversed pair: a call given low > high returns a root
\* that is one of the final endpoints and lies above the final high.
C10_WitnessReversed ==
    /\ passed /\ low0 > high0
    /\ pc = "returned" /\ ret.tag = "ok" /\ Len(ret.table) >= 1
    /\ (ret.root = a \/ ret.root = b)
    /\ ret.root > b

\* C10: the root a call given low < high returns after at least one
\* iteration lies in the final bracket, on one of its endpoints; a call
\* given any pair returns one of the final endpoints.
C10_RootInBracket ==
    /\ (passed /\ pc = "returned" /\ ret.tag = "ok" /\ Len(ret.table) >= 1)
          => (ret.root = a \/ ret.root = b)
    /\ (ProperCall /\ pc = "returned" /\ ret.tag = "ok" /\ Len(ret.table) >= 1)
          => a <= ret.root /\ ret.root <= b

\* C10 witness: a returned root that came from an accepted Newton step and
\* is the upper endpoint of the final bracket.
C10_Witness ==
    /\ ProperCall /\ pc = "returned" /\ ret.tag = "ok" /\ Len(ret.table) >= 2
    /\ ret.table[Len(ret.table)].Method = NEWTON
    /\ ret.root = b /\ a < b

=============================================================================
